---------------------------- MODULE Spec2Model ----------------------------
(***************************************************************************)
(* Model of backend/main.py: the /train and /predict handlers, the         *)
(* preprocessing globals, the pickle-file model store and the evaluation   *)
(* of three scikit-learn classifiers under holdout, k-fold and             *)
(* leave-one-out validation.                                               *)
(*                                                                         *)
(* Library behaviour (scikit-learn, joblib, the file system) is modelled   *)
(* by what the calls in main.py observe:                                   *)
(*   - a dataset is its label vector; the row index stands for the         *)
(*     (scaled) feature vector, so "nearest" means nearest in index;       *)
(*   - a classifier object is its specification name and the set of rows   *)
(*     it was last fitted on (not fitted before the first fit);            *)
(*   - a metric value is an exact rational <<n, d>> with d > 0, the float  *)
(*     nan written <<0, 0>>, or Python's None written <<>>.                *)
(*                                                                         *)
(* The variable resp holds what a handler returns or raises.  How FastAPI  *)
(* encodes a returned value as JSON is outside the model.                  *)
(***************************************************************************)
EXTENDS Integers, Sequences, FiniteSets, TLC

\* ------------------------------------------------------------------------
\* Values
\* ------------------------------------------------------------------------

None == <<>>
NaN == <<0, 0>>

\* The one element of a singleton.  The({e(v) : v \in {x}}) is written for
\* LET v == x IN e(v) where x is costly and e uses v more than once: TLC
\* works a bound v out once, but a LET definition or an operator argument at
\* every use when it counts coverage.
The(S) == CHOOSE v \in S : TRUE

RECURSIVE GCD(_, _)
GCD(a, b) == IF b = 0 THEN a ELSE The({GCD(b, r) : r \in {a % b}})

\* The rational n/d (d > 0) in lowest terms.
Frac(n, d) ==
    The({IF x = 0 THEN <<0, 1>>
         ELSE The({<<x \div g, z \div g>> : g \in {GCD(x, z)}}) : x \in {n}, z \in {d}})

Zero == Frac(0, 1)

IsNum(v) == v # None /\ v # NaN

\* Python float "+": nan is absorbing.
AddV(a, b) ==
    The({IF x = NaN \/ z = NaN THEN NaN
         ELSE Frac(x[1] * z[2] + z[1] * x[2], x[2] * z[2]) : x \in {a}, z \in {b}})

\* Python float "/" by a positive int.
DivV(a, k) == The({IF x = NaN THEN NaN ELSE Frac(x[1], x[2] * k) : x \in {a}})

RECURSIVE SumFrom(_, _, _)
\* acc + s[i] + s[i + 1] + ..., added in that order.
SumFrom(s, i, acc) ==
    IF i > Len(s) THEN acc
    ELSE The({SumFrom(s, i + 1, next) : next \in {AddV(acc, s[i])}})

\* The running sum that starts at 0.
SumSeq(s) == SumFrom(s, 1, Zero)



\* ------------------------------------------------------------------------
\* Dataset: the label vector y, a function from rows 0..N-1 to {0, 1}
\* ------------------------------------------------------------------------

NRows(y) == Cardinality(DOMAIN y)
Rows(n) == 0 .. (n - 1)
Classes(y, S) == {y[i] : i \in S}
Ones(y, S) == Cardinality({i \in S : y[i] = 1})

\* ------------------------------------------------------------------------
\* The classifier specifications and the library calls made on them
\* ------------------------------------------------------------------------

\* The models dict, in insertion order.
SpecNames == <<"kNN", "Bayesian", "SVM">>
SpecSet == {SpecNames[i] : i \in DOMAIN SpecNames}

\* KNeighborsClassifier(n_neighbors=5)
N_NEIGHBORS == 5

\* A freshly constructed classifier.
NewModel(name) == [spec |-> name, fitted |-> FALSE, fit |-> {}]

\* model.fit(X_train, y_train) raises: no rows at all, or SVC given one class.
FitRaises(name, y, train) ==
    \/ train = {}
    \/ name \in {"SVM", "LinearSVC"} /\ Cardinality(Classes(y, train)) < 2

\* model.fit refits in place: whatever was learnt before is replaced.
Fit(m, train) == [m EXCEPT !.fitted = TRUE, !.fit = train]

\* The rows of S at index distance exactly d from row i, the lower one first,
\* k of them at most.
RowsAt(S, i, d, k) ==
    LET lo == IF (i - d) \in S THEN {i - d} ELSE {}
        hi == IF d > 0 /\ k > Cardinality(lo) /\ (i + d) \in S THEN {i + d} ELSE {}
    IN lo \cup hi

RECURSIVE NearestFrom(_, _, _, _, _)
\* At most k rows of S at index distance d or more from row i, nearest first.
NearestFrom(S, i, d, k, lim) ==
    IF k = 0 \/ d > lim THEN {}
    ELSE The({The({near \cup NearestFrom(S, i, d + 1, k2, lim) :
                   k2 \in {k - Cardinality(near)}}) :
              near \in {RowsAt(S, i, d, k)}})

\* model.predict raises: never fitted, or kNN asked for more neighbours than
\* it has training rows.
PredictRaises(m) ==
    \/ ~m.fitted
    \/ m.spec = "kNN" /\ Cardinality(m.fit) < N_NEIGHBORS

\* predict_proba(...)[:, 1] of a fitted classifier on row i, as <<n, d>>:
\* kNN votes among its nearest training rows, the other two use the class
\* frequencies of the training rows.
Proba1(m, y, i) ==
    IF m.spec = "kNN"
    THEN Frac(Ones(y, NearestFrom(m.fit, i, 0, N_NEIGHBORS, NRows(y))), N_NEIGHBORS)
    ELSE Frac(Ones(y, m.fit), Cardinality(m.fit))

\* model.predict on row i: the more probable class, class 0 on a tie.
Predict(m, y, i) == LET p == Proba1(m, y, i) IN IF 2 * p[1] > p[2] THEN 1 ELSE 0

\* hasattr(model, "predict_proba"): all three configured classifiers have it
\* (SVC because it is built with probability=True).
HasPredictProba(name) == name \in {"kNN", "Bayesian", "SVM"}

\* A scikit-learn classifier without predict_proba.  The models dicts do not
\* hold one; it is what takes evaluate_model through its roc_auc = None
\* branch.
NoProba == "LinearSVC"

\* ------------------------------------------------------------------------
\* evaluate_model
\* ------------------------------------------------------------------------

MetricKeys == <<"accuracy", "precision", "recall", "f1_score", "roc_auc">>
MetricSet == {MetricKeys[i] : i \in DOMAIN MetricKeys}

Raise(msg) == [raise |-> msg]
IsRaise(v) == DOMAIN v = {"raise"}

\* Ratio with zero_division=0.
Ratio0(n, d) == IF d = 0 THEN Zero ELSE Frac(n, d)

\* roc_auc_score on both classes: the share of (positive, negative) pairs
\* that the score orders correctly, ties counting one half.
RocAuc(m, y, test) ==
    LET pos == {i \in test : y[i] = 1}
        neg == {i \in test : y[i] = 0}
        Less(a, b) == a[1] * b[2] < b[1] * a[2]
        gt == Cardinality({pr \in pos \X neg :
                  Less(Proba1(m, y, pr[2]), Proba1(m, y, pr[1]))})
        eq == Cardinality({pr \in pos \X neg :
                  Proba1(m, y, pr[2]) = Proba1(m, y, pr[1])})
    IN Frac(2 * gt + eq, 2 * Cardinality(pos) * Cardinality(neg))

\* roc is what the installed scikit-learn does for a test set holding one
\* class only: "raise" (ValueError) or "nan" (a warning and nan).
EvaluateModel(m, y, test, roc) ==
    IF PredictRaises(m) THEN Raise("predict")
    ELSE
    LET pred == [i \in test |-> Predict(m, y, i)]
        tp == Cardinality({i \in test : pred[i] = 1 /\ y[i] = 1})
        fp == Cardinality({i \in test : pred[i] = 1 /\ y[i] = 0})
        fn == Cardinality({i \in test : pred[i] = 0 /\ y[i] = 1})
        ok == Cardinality({i \in test : pred[i] = y[i]})
        base == [accuracy  |-> Frac(ok, Cardinality(test)),
                 precision |-> Ratio0(tp, tp + fp),
                 recall    |-> Ratio0(tp, tp + fn),
                 f1_score  |-> Ratio0(2 * tp, 2 * tp + fp + fn)]
    IN  IF ~HasPredictProba(m.spec)
        THEN base @@ [roc_auc |-> None]
        ELSE IF Cardinality(Classes(y, m.fit)) < 2
        THEN Raise("probas[:, 1]")
        ELSE IF Cardinality(Classes(y, test)) < 2
        THEN IF roc = "raise" THEN Raise("roc_auc_score")
             ELSE base @@ [roc_auc |-> NaN]
        ELSE base @@ [roc_auc |-> RocAuc(m, y, test)]

\* ------------------------------------------------------------------------
\* Resampling: each strategy gives a sequence of [train, test] index sets,
\* or raises
\* ------------------------------------------------------------------------

Methods == {"holdout", "3-fold", "10-fold", "leave-one-out"}

Split(n, test) == [train |-> Rows(n) \ test, test |-> test]

\* train_test_split(X, y, test_size=0.2, random_state=42): ceil(0.2 * n) test
\* rows picked by a seeded shuffle, the same rows on every call.  Every
\* fifth row stands for the seeded pick.  It raises when no train row is left.
HoldoutRaises(n) == n - ((n + 4) \div 5) = 0
HoldoutSplits(n) == <<Split(n, {i \in Rows(n) : i % 5 = 0})>>

\* KFold(n_splits=k).split(X), no shuffle: k consecutive blocks, the first
\* n % k of them one row longer.  It raises when k > n.
KFoldRaises(k, n) == k > n
\* Blocks of n // k rows each, the n % k rows left over in no block.
FoldSizeFloor(k, n, i) == n \div k
FoldSize(k, n, i) == (n \div k) + (IF i <= n % k THEN 1 ELSE 0)
FoldStart(k, n, i) == (i - 1) * (n \div k) + (IF i - 1 <= n % k THEN i - 1 ELSE n % k)
KFoldTest(k, n, i) == FoldStart(k, n, i) .. (FoldStart(k, n, i) + FoldSize(k, n, i) - 1)
KFoldSplits(k, n) == [i \in 1 .. k |-> Split(n, KFoldTest(k, n, i))]

\* LeaveOneOut().split(X): one split per row.  It raises when n <= 1.
LooRaises(n) == n <= 1
LooSplits(n) == [i \in 1 .. n |-> Split(n, {i - 1})]

NSplits(vm) == IF vm = "3-fold" THEN 3 ELSE 10

\* ------------------------------------------------------------------------
\* Fold evaluation and aggregation
\* ------------------------------------------------------------------------

Failed(msg, fits) == [raise |-> msg, fits |-> fits]
HasRaised(v) == "raise" \in DOMAIN v

RECURSIVE FoldFrom(_, _, _, _, _, _)
\* The loop "model.fit(...); evaluate_model(...)" over splits[i], splits[i + 1],
\* ... on the instance m that the earlier passes left behind, out being
\* their fold metrics.
FoldFrom(m, y, splits, roc, i, out) ==
    IF i > Len(splits) THEN [model |-> m, folds |-> out, fits |-> i - 1]
    ELSE IF FitRaises(m.spec, y, splits[i].train) THEN Failed("fit", i)
    ELSE The({The({IF IsRaise(fm) THEN Failed(fm.raise, i)
                   ELSE The({FoldFrom(m2, y, splits, roc, i + 1, out2) :
                             out2 \in {Append(out, fm)}}) :
                   fm \in {EvaluateModel(m2, y, splits[i].test, roc)}}) :
              m2 \in {Fit(m, splits[i].train)}})

\* The loop over every split on one classifier instance refitted in place:
\* the instance after the last fit and the fold metrics in order, or the
\* first exception.
FoldLoop(m, y, splits, roc) == FoldFrom(m, y, splits, roc, 1, <<>>)

\* evaluate_fold(model, ...) on the instance it is handed.
EvaluateFold(m, y, split, roc) ==
    IF FitRaises(m.spec, y, split.train) THEN Raise("fit")
    ELSE EvaluateModel(Fit(m, split.train), y, split.test, roc)

\* The k-fold accumulation: a None fold value is skipped, valid_folds counts
\* every fold, and each sum is divided by valid_folds.
KFoldAggregate(folds) ==
    LET Vals(k) == [i \in DOMAIN folds |-> folds[i][k]]
        Kept(k) == SelectSeq(Vals(k), LAMBDA v : v # None)
        valid_folds == Len(folds)
    IN [k \in MetricSet |-> DivV(SumSeq(Kept(k)), valid_folds)]

\* The leave-one-out accumulation: every fold value is added (None cannot be
\* added to a number: TypeError), each sum divided by len(fold_results).
LooAggregate(folds) ==
    IF \E i \in DOMAIN folds : \E k \in MetricSet : folds[i][k] = None
    THEN Raise("TypeError")
    ELSE [k \in MetricSet |->
            DivV(SumSeq([i \in DOMAIN folds |-> folds[i][k]]), Len(folds))]

\* ------------------------------------------------------------------------
\* State
\* ------------------------------------------------------------------------

VARIABLES
    host,    \* what the installation decides: host.roc is roc_auc_score's answer
             \* to a one-class test set ("raise" or "nan"), host.backend is
             \* where joblib runs Parallel(n_jobs=-1) tasks ("loky" worker
             \* processes, or "sequential" in the caller on a one-CPU host)
    data,    \* global data: the labels of the table read from diabetes.csv
    scaler,  \* global scaler: [fit |-> FALSE] is None
    files,   \* the <name>.pkl files of the working directory
    resp,    \* the response to the last request
    last,    \* what the last request was and what it did on the way
    kf,      \* the k-fold branch of train_endpoint at work on one name
    loo,     \* the Parallel call of the leave-one-out branch on one name
    store    \* two server processes at work on one directory

vars == <<host, data, scaler, files, resp, last, kf, loo, store>>

\* A part of the program that is not running.
Idle == [pc |-> "idle"]

\* ------------------------------------------------------------------------
\* Model store: save_model / load_model
\* ------------------------------------------------------------------------

PredictNames == SpecSet \cup {"Neural Network"}

Absent == [kind |-> "absent"]
Truncated == [kind |-> "truncated"]
Pickle(m) == [kind |-> "pickle", obj |-> m]

\* open(name + ".pkl", "wb"): the file exists and is empty from here on.
OpenWb(fs, name) == [fs EXCEPT ![name] = Truncated]

\* joblib.dump(model, f) and the close of the with block.
Dump(fs, name, m) == [fs EXCEPT ![name] = Pickle(m)]

\* save_model(model, model_name)
SaveModel(fs, name, m) == Dump(OpenWb(fs, name), name, m)

\* load_model(model_name): the classifier, None for FileNotFoundError, and any
\* other exception of open or joblib.load goes to the caller.
LoadModel(fs, name) ==
    CASE fs[name].kind = "absent" -> [tag |-> "None"]
      [] fs[name].kind = "pickle" -> [tag |-> "obj", obj |-> fs[name].obj]
      [] OTHER -> [tag |-> "raise", raise |-> "EOFError"]

\* ------------------------------------------------------------------------
\* Responses
\* ------------------------------------------------------------------------

\* What a raise statement or a failing library call throws: an HTTPException
\* with its status code and detail, or any other exception with its text.
NoErr == [kind |-> "none", status |-> 0, detail |-> ""]
Raised(msg) == [kind |-> "Exception", status |-> 0, detail |-> msg]
RaisedHTTP(status, detail) == [kind |-> "HTTPException", status |-> status, detail |-> detail]

\* The response FastAPI makes of a raised HTTPException(status_code, detail).
HTTPException(status, detail) == [status |-> status, detail |-> detail]

\* except Exception as e: raise HTTPException(status_code=500, detail=str(e))
\* It catches the handler's own HTTPException too.
ExceptHandler(e) == HTTPException(500, e.detail)

Ok(body) == [status |-> 200, body |-> body]

LooGateDetail == "LOO is computationally expensive for large datasets"

\* if len(X) > 1000
LOO_MAX_ROWS == 1000

\* ------------------------------------------------------------------------
\* The installations and tables the model runs
\* ------------------------------------------------------------------------

\* Rows of the small table.
MaxRows == 11

Alternating(n) == [i \in Rows(n) |-> i % 2]
Blocks(n) == [i \in Rows(n) |-> (i \div 3) % 2]

\* diabetes.csv as found at startup: a table too small for any strategy, two
\* small tables, and a table just above the leave-one-out ceiling.
SmallTables == {Alternating(2), Alternating(MaxRows), Blocks(MaxRows)}
Datasets == SmallTables \cup {Alternating(LOO_MAX_ROWS + 1)}

Hosts == [roc : {"raise", "nan"}, backend : {"loky", "sequential"}]

\* ------------------------------------------------------------------------
\* preprocess_data
\* ------------------------------------------------------------------------

Loaded(y) == [loaded |-> TRUE, y |-> y]

NoScaler == [fit |-> FALSE]
FitScaler == [fit |-> TRUE]

\* preprocess_data() raises on data None, before it touches the scaler.
PreprocessRaises(d) == ~d.loaded

\* ------------------------------------------------------------------------
\* train_endpoint
\* ------------------------------------------------------------------------

\* Parallel(n_jobs=-1)(delayed(evaluate_fold)(model, ...) for each split) on
\* worker processes: every task gets its own pickled copy of model, the
\* results come back in task order, and the caller's instance is untouched.
LokyFolds(m, y, splits, roc) ==
    The({The({IF bad # {}
              THEN Failed(res[CHOOSE i \in bad : \A j \in bad : i <= j].raise, Len(splits))
              ELSE [model |-> m, folds |-> res, fits |-> Len(splits)] :
              bad \in {{i \in DOMAIN res : IsRaise(res[i])}}}) :
         res \in {[i \in DOMAIN splits |-> EvaluateFold(m, y, splits[i], roc)] @@ <<>>}})

\* The Parallel call of the leave-one-out branch under the host's backend.
ParallelFolds(m, y, splits, h) ==
    IF h.backend = "loky" THEN LokyFolds(m, y, splits, h.roc)
    ELSE FoldLoop(m, y, splits, h.roc)

\* What one name's run hands on: the instance to save, the metrics to report.
Done(r, metrics) == [model |-> r.model, metrics |-> metrics, fits |-> r.fits]

\* lines 218-223 on the results of the Parallel call.
LooResult(r) ==
    IF HasRaised(r) THEN r
    ELSE The({IF IsRaise(a) THEN Failed(a.raise, r.fits) ELSE Done(r, a) :
              a \in {LooAggregate(r.folds)}})

\* The body of "for name, model in models.items()" up to save_model, for one
\* name: the instance to save and the metrics to report, or the exception.
SpecRun(vm, name, y, h) ==
    CASE vm = "holdout" ->
           The({IF HasRaised(r) THEN r ELSE Done(r, r.folds[1]) :
                r \in {FoldLoop(NewModel(name), y, HoldoutSplits(NRows(y)), h.roc)}})
      [] vm \in {"3-fold", "10-fold"} ->
           IF KFoldRaises(NSplits(vm), NRows(y)) THEN Failed("split", 0)
           ELSE The({IF HasRaised(r) THEN r ELSE Done(r, KFoldAggregate(r.folds)) :
                     r \in {FoldLoop(NewModel(name), y,
                                     KFoldSplits(NSplits(vm), NRows(y)), h.roc)}})
      [] OTHER ->
           IF LooRaises(NRows(y)) THEN Failed("split", 0)
           ELSE The({LooResult(r) :
                     r \in {ParallelFolds(NewModel(name), y, LooSplits(NRows(y)), h)}})

\* SpecRun for every small table, strategy, name and installation, worked
\* out once (@@ makes the function an explicit table).
SpecRunOf ==
    [y \in SmallTables, vm \in Methods, name \in SpecSet, h \in Hosts |->
        SpecRun(vm, name, y, h)] @@ <<>>

\* (The table above the ceiling is not in SpecRunOf: no request the model
\* makes on it gets as far as a fit.)
SpecRunAt(vm, name, y, h) ==
    IF y \in SmallTables THEN SpecRunOf[y, vm, name, h] ELSE SpecRun(vm, name, y, h)

NoFault == <<"none", "">>
Faults == {NoFault} \cup ({"fit", "dump"} \X SpecSet)

\* A train_endpoint that saved name's instance before its folds were run:
\* what SpecRaised would be if save_model came first in the loop body.
SpecRaisedAfterSave(acc, name, r) ==
    [acc EXCEPT !.err = Raised(r.raise), !.fits = @ + r.fits, !.failed = name,
                !.files = SaveModel(@, name, NewModel(name)),
                !.written = @ \cup {name}]

\* model.fit or evaluate_model raised inside name's folds: the exception
\* leaves the loop over models.items() before name's save_model.
SpecRaised(acc, name, r) ==
    [acc EXCEPT !.err = Raised(r.raise), !.fits = @ + r.fits, !.failed = name]

\* joblib.dump raised inside save_model: the file was opened "wb" already.
DumpRaised(acc, name, r) ==
    [acc EXCEPT !.err = Raised("dump"), !.fits = @ + r.fits,
                !.completed = @ \cup {name},
                !.files = OpenWb(@, name)]

\* results[name] = ...; save_model(model, name)
SpecSaved(acc, name, r) ==
    [acc EXCEPT !.files = SaveModel(@, name, r.model),
                !.fits = @ + r.fits,
                !.completed = @ \cup {name},
                !.written = @ \cup {name},
                !.results = (name :> r.metrics) @@ @]

RECURSIVE RunSpecs(_, _, _, _, _, _)
\* The loop over models.items() from the i-th name on.  fault names a library
\* call that raises for a reason outside the data: <<"fit", name>> is a fit or
\* score of that name's folds, <<"dump", name>> is joblib.dump of that name.
RunSpecs(vm, y, h, fault, i, acc) ==
    IF i > Len(SpecNames) THEN acc
    ELSE The({
           IF HasRaised(r) THEN SpecRaised(acc, SpecNames[i], r)
           ELSE IF fault = <<"dump", SpecNames[i]>> THEN DumpRaised(acc, SpecNames[i], r)
           ELSE The({RunSpecs(vm, y, h, fault, i + 1, acc2) :
                     acc2 \in {SpecSaved(acc, SpecNames[i], r)}}) :
           r \in {IF fault = <<"fit", SpecNames[i]>> THEN Failed("library", 1)
                  ELSE SpecRunAt(vm, SpecNames[i], y, h)}})

\* The try block of train_endpoint after preprocess_data.
TrainBody(vm, y, h, fault, fs) ==
    LET acc0 == [files |-> fs, results |-> <<>>, fits |-> 0, written |-> {},
                 completed |-> {}, failed |-> "", err |-> NoErr]
    IN CASE vm = "holdout" /\ HoldoutRaises(NRows(y)) ->
              [acc0 EXCEPT !.err = Raised("train_test_split")]
         [] vm = "leave-one-out" /\ NRows(y) > LOO_MAX_ROWS ->
              [acc0 EXCEPT !.err = RaisedHTTP(400, LooGateDetail)]
         [] vm \notin Methods ->
              [acc0 EXCEPT !.err = RaisedHTTP(400, "Invalid validation method")]
         [] OTHER -> RunSpecs(vm, y, h, fault, 1, acc0)

\* What the last request was and what it did on the way: the operation and
\* its argument, the row asked for, the fits made, the names save_model
\* returned for, the names whose folds all completed, the name whose fold
\* raised, whether preprocess_data refitted the scaler, what load_model gave,
\* and what the scaler was when scaler.transform was reached.
Started ==
    [op |-> "start", arg |-> "", row |-> 0, fits |-> 0, written |-> {},
     completed |-> {}, failed |-> "", refit |-> FALSE, loaded |-> "n/a",
     scaling |-> "n/a"]

Train(vm, fault) ==
    /\ UNCHANGED <<host, data, kf, loo, store>>
    /\ IF PreprocessRaises(data)
       THEN /\ resp' = ExceptHandler(RaisedHTTP(500, "Data not loaded"))
            /\ last' = [Started EXCEPT !.op = "train", !.arg = vm]
            /\ UNCHANGED <<scaler, files>>
       ELSE \E out \in {TrainBody(vm, data.y, host, fault, files)} :
               /\ scaler' = FitScaler
               /\ files' = out.files
               /\ resp' = IF out.err # NoErr THEN ExceptHandler(out.err)
                          ELSE Ok(out.results)
               /\ last' = [Started EXCEPT !.op = "train", !.arg = vm,
                                          !.fits = out.fits,
                                          !.written = out.written,
                                          !.completed = out.completed,
                                          !.failed = out.failed,
                                          !.refit = TRUE]

\* ------------------------------------------------------------------------
\* predict_endpoint
\* ------------------------------------------------------------------------

\* A data_row of the wrong width.
BadRow == -1

\* row is a point of the feature space (a row index), or BadRow.
Predict_endpoint(name, row) ==
    \E got \in {LoadModel(files, name)} :
    \E seen \in {[Started EXCEPT !.op = "predict", !.arg = name, !.row = row,
                                 !.loaded = got.tag]} :
       /\ UNCHANGED <<host, data, files, kf, loo, store>>
       /\ CASE got.tag = "raise" ->
                 /\ resp' = ExceptHandler(Raised(got.raise))
                 /\ last' = seen
                 /\ UNCHANGED scaler
            [] got.tag = "None" /\ PreprocessRaises(data) ->
                 /\ resp' = ExceptHandler(RaisedHTTP(500, "Data not loaded"))
                 /\ last' = seen
                 /\ UNCHANGED scaler
            [] got.tag = "None" /\ ~PreprocessRaises(data) ->
                 \* train_model is defined nowhere: NameError
                 /\ scaler' = FitScaler
                 /\ resp' = ExceptHandler(Raised("name 'train_model' is not defined"))
                 /\ last' = [seen EXCEPT !.refit = TRUE]
            [] got.tag = "obj" /\ ~scaler.fit ->
                 \* None has no attribute transform
                 /\ resp' = ExceptHandler(Raised("AttributeError"))
                 /\ last' = [seen EXCEPT !.scaling = "None"]
                 /\ UNCHANGED scaler
            [] got.tag = "obj" /\ scaler.fit ->
                 /\ resp' = IF row = BadRow THEN ExceptHandler(Raised("transform"))
                            ELSE IF PredictRaises(got.obj) THEN ExceptHandler(Raised("predict"))
                            ELSE Ok(Predict(got.obj, data.y, row))
                 /\ last' = [seen EXCEPT !.scaling = "fit"]
                 /\ UNCHANGED scaler

\* ------------------------------------------------------------------------
\* Process start, and the server as a whole
\* ------------------------------------------------------------------------

NoResp == [status |-> 0]

\* The module is imported (data = None, scaler = None) and startup_event
\* loads diabetes.csv; the working directory holds no .pkl file yet.
Init ==
    /\ host \in Hosts
    /\ data \in {Loaded(y) : y \in Datasets}
    /\ scaler = NoScaler
    /\ files = [n \in PredictNames |-> Absent]
    /\ resp = NoResp
    /\ last = Started
    /\ kf = Idle /\ loo = Idle /\ store = Idle

\* The server process is stopped and started again in the same directory:
\* the globals are rebuilt, the same csv is loaded, the .pkl files stay.
Restart ==
    /\ scaler' = NoScaler
    /\ resp' = NoResp
    /\ last' = Started
    /\ UNCHANGED <<host, data, files, kf, loo, store>>

\* The validation methods asked for: every strategy and an unknown one on
\* the small tables, leave-one-out and the unknown one on the large table.
TrainInputs(y) ==
    IF y \in SmallTables THEN Methods \cup {"bogus"} ELSE {"leave-one-out", "bogus"}
RowInputs(y) == {BadRow, 0, NRows(y) - 1}

Next ==
    \/ \E vm \in TrainInputs(data.y), fault \in Faults : Train(vm, fault)
    \/ \E name \in PredictNames, row \in RowInputs(data.y) : Predict_endpoint(name, row)
    \/ Restart

Spec == Init /\ [][Next]_vars

\* ------------------------------------------------------------------------
\* The k-fold branch, one pass of its loops at a time (SpecFolds)
\* ------------------------------------------------------------------------

\* The classifiers a k-fold run is followed on.
Estimators == SpecSet \cup {NoProba}

\* The tables a k-fold run is followed on: every row count up to MaxRows.
FoldTables == {Alternating(n) : n \in 1 .. MaxRows} \cup {Blocks(MaxRows)}

NoMetrics == [key \in MetricSet |-> None]

\* n_splits, kf = KFold(...), metrics_sum = {...: 0}, valid_folds = 0, for
\* one name of the models dict.
KfStart(y, vm, name, roc) ==
    [pc |-> "loop", y |-> y, k |-> NSplits(vm), name |-> name, roc |-> roc,
     model |-> NewModel(name),
     metrics_sum |-> [key \in MetricSet |-> Zero], valid_folds |-> 0,
     splits |-> <<>>, folds |-> <<>>, result |-> NoMetrics, err |-> ""]

KfRaised(err) == [kf EXCEPT !.pc = "raised", !.err = err]

\* for key in metrics_sum: if fold_metrics[key] is not None: metrics_sum[key] += ...
Accumulate(metrics_sum, fold_metrics) ==
    [key \in MetricSet |->
        IF fold_metrics[key] # None THEN AddV(metrics_sum[key], fold_metrics[key])
        ELSE metrics_sum[key]]

\* {key: metrics_sum[key] / valid_folds for key in metrics_sum}
Averages(metrics_sum, valid_folds) ==
    [key \in MetricSet |-> DivV(metrics_sum[key], valid_folds)]

\* kf.split(X) is asked for its first split and raises: fewer rows than folds.
KfSplitRaises ==
    /\ kf.pc = "loop" /\ kf.splits = <<>>
    /\ KFoldRaises(kf.k, NRows(kf.y))
    /\ kf' = KfRaised("split")
    /\ UNCHANGED <<host, data, scaler, files, resp, last, loo, store>>

\* One pass of "for train_index, test_index in kf.split(X)": the next split,
\* model.fit, evaluate_model, the sums and valid_folds += 1.
KfFold ==
    /\ kf.pc = "loop" /\ Len(kf.splits) < kf.k
    /\ ~KFoldRaises(kf.k, NRows(kf.y))
    /\ \E sp \in {Split(NRows(kf.y), KFoldTest(kf.k, NRows(kf.y), Len(kf.splits) + 1))} :
       \E out \in {EvaluateFold(kf.model, kf.y, sp, kf.roc)} :
          /\ ~IsRaise(out)
          /\ kf' = [kf EXCEPT !.splits = Append(@, sp),
                              !.model = Fit(@, sp.train),
                              !.folds = Append(@, out),
                              !.metrics_sum = Accumulate(@, out),
                              !.valid_folds = @ + 1]
    /\ UNCHANGED <<host, data, scaler, files, resp, last, loo, store>>

\* The same pass when model.fit or evaluate_model raises.
KfFoldRaises ==
    /\ kf.pc = "loop" /\ Len(kf.splits) < kf.k
    /\ ~KFoldRaises(kf.k, NRows(kf.y))
    /\ \E sp \in {Split(NRows(kf.y), KFoldTest(kf.k, NRows(kf.y), Len(kf.splits) + 1))} :
       \E out \in {EvaluateFold(kf.model, kf.y, sp, kf.roc)} :
          /\ IsRaise(out)
          /\ kf' = [KfRaised(out.raise) EXCEPT
                       !.splits = Append(@, sp),
                       !.model = IF FitRaises(kf.name, kf.y, sp.train) THEN @
                                 ELSE Fit(@, sp.train)]
    /\ UNCHANGED <<host, data, scaler, files, resp, last, loo, store>>

\* kf.split(X) is exhausted: results[name] = ...; save_model(model, name)
KfFinish ==
    /\ kf.pc = "loop" /\ Len(kf.splits) = kf.k
    /\ kf' = [kf EXCEPT !.pc = "done",
                        !.result = Averages(kf.metrics_sum, kf.valid_folds)]
    /\ files' = SaveModel(files, kf.name, kf.model)
    /\ UNCHANGED <<host, data, scaler, resp, last, loo, store>>

InitFolds ==
    /\ host \in Hosts
    /\ \E y \in FoldTables, vm \in {"3-fold", "10-fold"}, name \in Estimators :
          /\ data = Loaded(y)
          /\ kf = KfStart(y, vm, name, host.roc)
    /\ scaler = FitScaler
    /\ files = [n \in PredictNames \cup Estimators |-> Absent]
    /\ resp = NoResp
    /\ last = Started
    /\ loo = Idle /\ store = Idle

NextFolds == KfSplitRaises \/ KfFold \/ KfFoldRaises \/ KfFinish

SpecFolds == InitFolds /\ [][NextFolds]_vars

\* ------------------------------------------------------------------------
\* The Parallel call of the leave-one-out branch, one worker step at a time
\* (SpecLoo)
\* ------------------------------------------------------------------------

\* Rows of the tables the Parallel call is followed on.
LooRows == 6

LooTables == {Alternating(LooRows), Blocks(LooRows)}

\* All workers fitting and scoring the caller's one instance.
SharedInstance(i) == 0

\* The instance task i fits and scores: instance 0 is the caller's model,
\* instance i the copy that reached a worker process pickled with task i.
TaskInstance(i) == i

\* Parallel(n_jobs=-1)(delayed(evaluate_fold)(model, ...) for each split):
\* every task is queued with its copy of the unfitted model.
LooStart(y, name, roc) ==
    [pc |-> "running", y |-> y, name |-> name, roc |-> roc,
     inst |-> [i \in 0 .. NRows(y) |-> NewModel(name)],
     task |-> [i \in 1 .. NRows(y) |-> "queued"],
     out |-> [i \in 1 .. NRows(y) |-> NoMetrics],
     first |-> 0, result |-> NoMetrics, err |-> ""]

TaskDone(i, v) ==
    [loo EXCEPT !.task[i] = "done", !.out[i] = v,
                !.first = IF @ = 0 THEN i ELSE @]

\* evaluate_fold, its first statement, in the worker that has task i:
\* model.fit(X_train, y_train)
LooFit(i) ==
    /\ loo.pc = "running" /\ loo.task[i] = "queued"
    /\ \E sp \in {LooSplits(NRows(loo.y))[i]} :
          loo' = IF FitRaises(loo.name, loo.y, sp.train)
                 THEN TaskDone(i, Raise("fit"))
                 ELSE [loo EXCEPT !.task[i] = "fitted",
                                  !.inst[TaskInstance(i)] = Fit(@, sp.train)]
    /\ UNCHANGED <<host, data, scaler, files, resp, last, kf, store>>

\* evaluate_fold, its second statement: return evaluate_model(model, ...)
LooScore(i) ==
    /\ loo.pc = "running" /\ loo.task[i] = "fitted"
    /\ loo' = TaskDone(i, EvaluateModel(loo.inst[TaskInstance(i)], loo.y,
                                        LooSplits(NRows(loo.y))[i].test, loo.roc))
    /\ UNCHANGED <<host, data, scaler, files, resp, last, kf, store>>

\* A task raised: Parallel raises its exception in the caller.
LooAbort ==
    /\ loo.pc = "running"
    /\ \E i \in DOMAIN loo.task :
          /\ loo.task[i] = "done" /\ IsRaise(loo.out[i])
          /\ loo' = [loo EXCEPT !.pc = "raised", !.err = loo.out[i].raise]
    /\ UNCHANGED <<host, data, scaler, files, resp, last, kf, store>>

\* Every task returned: fold_results in task order, lines 218-223, and
\* save_model of the caller's instance.
LooCollect ==
    /\ loo.pc = "running"
    /\ \A i \in DOMAIN loo.task : loo.task[i] = "done" /\ ~IsRaise(loo.out[i])
    /\ \E a \in {LooAggregate([i \in 1 .. NRows(loo.y) |-> loo.out[i]])} :
          /\ ~IsRaise(a)
          /\ loo' = [loo EXCEPT !.pc = "collected", !.result = a]
    /\ files' = SaveModel(files, loo.name, loo.inst[0])
    /\ UNCHANGED <<host, data, scaler, resp, last, kf, store>>

\* Every task returned and metrics_sum[key] += None raises.
LooSumRaises ==
    /\ loo.pc = "running"
    /\ \A i \in DOMAIN loo.task : loo.task[i] = "done" /\ ~IsRaise(loo.out[i])
    /\ \E a \in {LooAggregate([i \in 1 .. NRows(loo.y) |-> loo.out[i]])} :
          /\ IsRaise(a)
          /\ loo' = [loo EXCEPT !.pc = "raised", !.err = a.raise]
    /\ UNCHANGED <<host, data, scaler, files, resp, last, kf, store>>

InitLoo ==
    /\ host \in {h \in Hosts : h.backend = "loky"}
    /\ \E y \in LooTables, name \in Estimators :
          /\ data = Loaded(y)
          /\ loo = LooStart(y, name, host.roc)
    /\ scaler = FitScaler
    /\ files = [n \in PredictNames \cup Estimators |-> Absent]
    /\ resp = NoResp
    /\ last = Started
    /\ kf = Idle /\ store = Idle

NextLoo ==
    \/ \E i \in DOMAIN loo.task : LooFit(i)
    \/ \E i \in DOMAIN loo.task : LooScore(i)
    \/ LooAbort
    \/ LooCollect
    \/ LooSumRaises

SpecLoo == InitLoo /\ [][NextLoo]_vars

\* ------------------------------------------------------------------------
\* Two server processes on one working directory (SpecStore)
\* ------------------------------------------------------------------------
\* Inside one process the handlers are coroutines that never await, so a
\* save_model and a load_model cannot interleave there.  They can when the
\* application runs as several worker processes on one directory: process A
\* below is in a train request, process B in predict requests.

\* The strategies process A is asked for, and the table both processes
\* loaded: every such run succeeds on every installation.
StoreMethods == {"holdout", "3-fold"}
StoreTable == Blocks(MaxRows)

NotLoaded == [tag |-> "n/a"]

StoreStart ==
    [pc |-> "idle", vm |-> "", i |-> 0, prev |-> Absent,
     name |-> "", got |-> NotLoaded, old |-> NotLoaded, new |-> NotLoaded]

\* The instance process A's run of vm hands to save_model for name.
TrainedModel(vm, name) == SpecRunAt(vm, name, data.y, host).model

\* Process A takes a train request and reaches the first save_model.
StoreTrain(vm) ==
    /\ store.pc = "idle"
    /\ store' = [store EXCEPT !.pc = "open", !.vm = vm, !.i = 1]
    /\ UNCHANGED <<host, data, scaler, files, resp, last, kf, loo>>

\* save_model in process A: with open(model_name + ".pkl", "wb") as f
StoreOpen ==
    /\ store.pc = "open"
    /\ files' = OpenWb(files, SpecNames[store.i])
    /\ store' = [store EXCEPT !.pc = "dump", !.prev = files[SpecNames[store.i]]]
    /\ UNCHANGED <<host, data, scaler, resp, last, kf, loo>>

\* save_model in process A: joblib.dump(model, f) and the close; then the
\* next name of the models dict, or the end of the request.
StoreDump ==
    /\ store.pc = "dump"
    /\ files' = Dump(files, SpecNames[store.i], TrainedModel(store.vm, SpecNames[store.i]))
    /\ store' = IF store.i < Len(SpecNames)
                THEN [store EXCEPT !.pc = "open", !.i = @ + 1]
                ELSE [store EXCEPT !.pc = "idle", !.i = 0]
    /\ UNCHANGED <<host, data, scaler, resp, last, kf, loo>>

\* predict_endpoint in process B: model = load_model(request.model_type).
\* old and new are what load_model gives on the directory as it was before
\* the save_model that is under way on that name, and as it will be after.
StoreLoad(name) ==
    /\ store.pc \in {"idle", "open", "dump"}
    /\ store' =
         IF store.pc = "dump" /\ SpecNames[store.i] = name
         THEN [store EXCEPT
                 !.name = name,
                 !.got = LoadModel(files, name),
                 !.old = LoadModel([files EXCEPT ![name] = store.prev], name),
                 !.new = LoadModel(Dump(files, name, TrainedModel(store.vm, name)), name)]
         ELSE [store EXCEPT
                 !.name = name,
                 !.got = LoadModel(files, name),
                 !.old = LoadModel(files, name),
                 !.new = LoadModel(files, name)]
    /\ UNCHANGED <<host, data, scaler, files, resp, last, kf, loo>>

InitStore ==
    /\ host \in Hosts
    /\ data = Loaded(StoreTable)
    /\ scaler = NoScaler
    /\ files = [n \in PredictNames |-> Absent]
    /\ resp = NoResp
    /\ last = Started
    /\ kf = Idle /\ loo = Idle
    /\ store = StoreStart

NextStore ==
    \/ \E vm \in StoreMethods : StoreTrain(vm)
    \/ StoreOpen
    \/ StoreDump
    \/ \E name \in SpecSet : StoreLoad(name)

SpecStore == InitStore /\ [][NextStore]_vars

\* ------------------------------------------------------------------------
\* Properties of the server (Spec)
\* ------------------------------------------------------------------------

\* C1: a predict request for a trainable name with no persisted classifier
\* (and a well-formed row) runs a training and answers with a prediction, not
\* an error, and afterwards a persisted classifier exists under that name.
C1_OnDemandTraining ==
    (last.op = "predict" /\ last.loaded = "None" /\ last.arg \in SpecSet
        /\ last.row # BadRow)
    => (resp.status = 200 /\ files[last.arg].kind = "pickle")

\* The exception line 202 raises, as the response it would be if it reached
\* the client.
DatasetTooLargeForStrategy == HTTPException(400, LooGateDetail)

\* C3: leave-one-out on more than 1000 rows is answered with the
\* DatasetTooLargeForStrategy rejection (not with the response of an
\* evaluation failure), with no fold fitted and nothing persisted; on at most
\* 1000 rows the request is not answered with that rejection.
C3_LooGate ==
    (last.op = "train" /\ last.arg = "leave-one-out" /\ data.loaded)
    => IF NRows(data.y) > LOO_MAX_ROWS
       THEN resp = DatasetTooLargeForStrategy /\ last.fits = 0 /\ last.written = {}
       ELSE resp.status = 200 \/ resp.detail # LooGateDetail

\* C4: a train request in which the fit or score of a fold raised ends in an
\* error response that carries no metrics, the file of the specification
\* whose fold raised is left as it was, and every file the request changed
\* or saved belongs to a specification that completed all its folds.
C4_NoPartialResults ==
    [][(last'.op = "train" /\ last'.failed # "")
       => /\ resp'.status = 500
          /\ "body" \notin DOMAIN resp'
          /\ files'[last'.failed] = files[last'.failed]
          /\ last'.failed \notin last'.written
          /\ last'.written \subseteq last'.completed
          /\ \A n \in PredictNames : files'[n] # files[n] => n \in last'.completed]_vars

\* C4 witness: the folds of SVM raised after kNN and Bayesian had been saved.
C4_Witness ==
    /\ last.op = "train" /\ last.failed = "SVM"
    /\ last.written = {"kNN", "Bayesian"}
    /\ resp.status = 500
    /\ files["kNN"].kind = "pickle" /\ files["SVM"].kind = "absent"

\* The splits of a strategy on n rows, in the order the loop takes them.
SplitsOf(vm, n) ==
    CASE vm = "holdout" -> HoldoutSplits(n)
      [] vm \in {"3-fold", "10-fold"} -> KFoldSplits(NSplits(vm), n)
      [] OTHER -> LooSplits(n)

\* C5: after a successful train request the file of every specification
\* holds the instance as fitted on the train rows of the run's final split.
C5_PersistedIsLastFitted ==
    (last.op = "train" /\ resp.status = 200)
    => \A name \in SpecSet :
          files[name] = Pickle(Fit(NewModel(name),
                                   SplitsOf(last.arg, NRows(data.y))[
                                       Len(SplitsOf(last.arg, NRows(data.y)))].train))

\* C8: a predict request that finds no file or a corrupt file under the name
\* gets the absent value from load_model, not an exception.
C8_CorruptIsAbsent ==
    (last.op = "predict" /\ files[last.arg].kind # "pickle")
    => last.loaded = "None"

\* C9: whenever a predict request reaches scaler.transform the scaler has
\* been fit, and a predict request that found its classifier persisted has
\* not refitted it.
C9_ScalerFitBeforeScaling ==
    /\ (last.op = "predict" /\ last.scaling # "n/a") => last.scaling = "fit"
    /\ (last.op = "predict" /\ last.loaded = "obj") => ~last.refit

\* ------------------------------------------------------------------------
\* Properties of the k-fold branch (SpecFolds)
\* ------------------------------------------------------------------------

\* What C6 says of the splits kf.split(X) has yielded so far on n rows: train
\* and test disjoint in each, test sets pairwise disjoint, the i-th test set
\* of n // k rows plus one for the first n % k; and once the loop has taken
\* them all, exactly k of them whose test sets cover 0 .. n-1.
YieldedSplitsPartition ==
    LET n == NRows(kf.y)
        sp == kf.splits
    IN /\ \A i \in DOMAIN sp :
            /\ sp[i].train \cap sp[i].test = {}
            /\ sp[i].test \subseteq Rows(n)
            /\ Cardinality(sp[i].test) = (n \div kf.k) + (IF i <= n % kf.k THEN 1 ELSE 0)
       /\ \A i, j \in DOMAIN sp : i # j => sp[i].test \cap sp[j].test = {}
       /\ kf.pc = "done" =>
            /\ Len(sp) = kf.k
            /\ UNION {sp[i].test : i \in DOMAIN sp} = Rows(n)

\* C6 as stated: for every N > 0 the k-fold strategy yields its k splits
\* (the split never refuses the table), and they partition 0 .. N-1 with the
\* stated sizes.
C6_KFoldPartitionAnyN ==
    kf.pc # "idle" => (kf.err # "split" /\ YieldedSplitsPartition)

\* C6 amended: for N >= k the k-fold strategy yields k splits that partition
\* 0 .. N-1 with the stated sizes; for N < k it yields none and raises.
C6_KFoldPartition ==
    kf.pc # "idle" =>
       /\ YieldedSplitsPartition
       /\ NRows(kf.y) >= kf.k => kf.err # "split"
       /\ NRows(kf.y) < kf.k => (kf.splits = <<>> /\ kf.pc # "done")
       /\ (NRows(kf.y) < kf.k /\ kf.pc # "loop") => kf.err = "split"

\* C6 witness: a 10-fold and a 3-fold loop each ran to its end on a row
\* count that k does not divide.
C6_Witness ==
    /\ kf.pc = "done" /\ NRows(kf.y) % kf.k # 0
    /\ Len(kf.splits) = kf.k
    /\ kf.k = 10 /\ kf.name \in SpecSet

\* The mean of the values of a field that are not None, None when there is
\* none.
MeanNonNull(vals) ==
    LET kept == SelectSeq(vals, LAMBDA v : v # None)
    IN IF kept = <<>> THEN None ELSE DivV(SumSeq(kept), Len(kept))

SequentialLoo ==
    LooResult(FoldLoop(NewModel(loo.name), loo.y, LooSplits(NRows(loo.y)), loo.roc))

\* C10: whatever order the workers fit, score and finish in, the Parallel
\* call ends as the sequential evaluation of the same folds ends (the same
\* aggregated metrics, or an exception where that one raises), and what a
\* fold returns is what that fold gives alone on a fresh classifier.
C10_ParallelEqualsSequential ==
    loo.pc # "idle" =>
       /\ \A i \in DOMAIN loo.task :
             loo.task[i] = "done" =>
                loo.out[i] = EvaluateFold(NewModel(loo.name), loo.y,
                                          LooSplits(NRows(loo.y))[i], loo.roc)
       /\ loo.pc = "collected" =>
             (~HasRaised(SequentialLoo) /\ loo.result = SequentialLoo.metrics)
       /\ loo.pc = "raised" => HasRaised(SequentialLoo)

\* C10 witness: a kNN run was collected whose last task finished first.
C10_Witness ==
    /\ loo.pc = "collected" /\ loo.name = "kNN"
    /\ loo.first = NRows(loo.y)
    /\ IsNum(loo.result["accuracy"])

\* ------------------------------------------------------------------------
\* Properties of the shared directory (SpecStore)
\* ------------------------------------------------------------------------

\* C7: a load_model that runs while a save_model of the same name is under
\* way gets the complete record saved before or the complete new one (the
\* absent value if there was none before), never an empty or partial one.
C7_LoadSeesCompleteRecord ==
    store.got # NotLoaded => store.got \in {store.old, store.new}

=============================================================================
